---- MODULE Spec2Model ----
(***************************************************************************)
(* Model of the PureDomain class factories: createPureEntity,              *)
(* createPureAggregateRoot and createPureValueObject.  A factory call      *)
(* closes over a schema, an optional update schema, an optional business   *)
(* rule and an optional identifier extractor; the class it returns offers  *)
(* create, the constructor, patch, addEvent, clearEvents and equals.       *)
(*                                                                         *)
(* JavaScript objects are sequences of <<key, value>> pairs with distinct  *)
(* keys, in insertion order.  All primitive values are strings.            *)
(***************************************************************************)
EXTENDS Integers, Sequences, FiniteSets, TLC

\* The number of instances one behaviour constructs.
MaxInstances == 3

\* The number of pending domain events an aggregate accumulates.
MaxEvents == 2

\* The latest reading of the clock.
MaxClock == 1

\* The number of instances held by a caller that is followed through its
\* writes to the objects it holds.
MaxShared == 2

\* What reading an absent property yields.
Undefined == "undefined"

(***************************************************************************)
(* Objects                                                                 *)
(***************************************************************************)
Keys(o) == {o[i][1] : i \in DOMAIN o}

Has(o, k) == k \in Keys(o)

\* o[k]: the value of an own property, undefined when absent.
Get(o, k) ==
    IF Has(o, k) THEN o[CHOOSE i \in DOMAIN o : o[i][1] = k][2] ELSE Undefined

\* { ...o }: a copy with the same keys, values and key order.
SpreadCopy(o) == [i \in DOMAIN o |-> <<o[i][1], o[i][2]>>]

\* Variant of SpreadMerge in which the value of a wins on a key of both.
SpreadMerge_ReceiverWins(a, b) ==
    LET OnlyInB(p) == ~Has(a, p[1])
    IN  SpreadCopy(a) \o SelectSeq(b, OnlyInB)

\* { ...a, ...b }: the keys of a in a's order, b's value winning on a key of
\* both, followed by the keys only b has, in b's order.
SpreadMerge(a, b) ==
    LET OnlyInB(p) == ~Has(a, p[1])
        over == [i \in DOMAIN a |->
                    <<a[i][1], IF Has(b, a[i][1]) THEN Get(b, a[i][1]) ELSE a[i][2]>>]
    IN  over \o SelectSeq(b, OnlyInB)

\* A value handed to the library by a caller: an object, or something else.
JsObject(o) == [isObject |-> TRUE, entries |-> o]
JsPrimitive == [isObject |-> FALSE, entries |-> <<>>]

(***************************************************************************)
(* Schemas and the validator                                               *)
(***************************************************************************)
Field(k, acc, opt) == [key |-> k, accepts |-> acc, optional |-> opt]

\* z.object({...}) and z.never()
ZObject(shape) == [isNever |-> FALSE, shape |-> shape]
ZNever == [isNever |-> TRUE, shape |-> <<>>]

\* A Result: Success(value) or Failure(errors).  log lists, in call order, the
\* collaborator calls made on the way to it.  threw tells a returned Result
\* from an exception that left the call, as Thrown describes.
Success(v) ==
    [ok |-> TRUE, value |-> v, errors |-> <<>>, log |-> <<>>, threw |-> FALSE]
Failure(errs) ==
    [ok |-> FALSE, value |-> <<>>, errors |-> errs, log |-> <<>>,
     threw |-> FALSE]
Thrown(errs) ==
    [ok |-> FALSE, value |-> <<>>, errors |-> errs, log |-> <<>>,
     threw |-> TRUE]
Logged(entry, r) == [r EXCEPT !.log = <<entry>> \o @]

\* The issue a field of the shape raises on the candidate object, if any.
FieldFails(o, f) ==
    IF Has(o, f.key) THEN Get(o, f.key) \notin f.accepts ELSE ~f.optional

FieldIssue(o, f) ==
    <<f.key, IF Has(o, f.key) THEN "invalid" ELSE "required">>

\* schema.safeParse(data): the validated value (the shape's keys the candidate
\* has, in the shape's order, unknown keys stripped) or the issues.
SafeParse(data, schema) ==
    IF schema.isNever THEN Failure(<< <<"", "never">> >>)
    ELSE IF ~data.isObject THEN Failure(<< <<"", "invalid_type">> >>)
    ELSE
        LET o == data.entries
            Bad(f) == FieldFails(o, f)
            Present(f) == Has(o, f.key)
            bad == SelectSeq(schema.shape, Bad)
            present == SelectSeq(schema.shape, Present)
        IN  IF bad # <<>>
            THEN Failure([i \in DOMAIN bad |-> FieldIssue(o, bad[i])])
            ELSE Success([i \in DOMAIN present |->
                            <<present[i].key, Get(o, present[i].key)>>])

\* pureZodParse(data, schema), recorded in the Result's log.
PureZodParse(data, schema) ==
    Logged([fn |-> "pureZodParse", data |-> data], SafeParse(data, schema))

\* result.mapSuccess(f) / result.chainSuccess(f), where next is f(result.value):
\* the callback's Result on a success, the failure passed through otherwise.
ChainSuccess(r, next) ==
    IF r.ok THEN [next EXCEPT !.log = r.log \o @] ELSE r

(***************************************************************************)
(* The classes: one per factory call                                       *)
(***************************************************************************)
\* An optional factory argument: <<>> when omitted, <<x>> when given.
Omitted == <<>>
Given(x) == <<x>>

\* The business rule of the order example.
OrderRule(current, updates) ==
    IF Get(updates, "status") = "shipped" /\ Get(current, "status") # "confirmed"
    THEN Failure(<< <<"cannotShipUnconfirmedOrder">> >>)
    ELSE Success(Undefined)

\* Variant of ApplyRule that hands the rule its two arguments swapped.
ApplyRule_SwappedArguments(rule, current, updates) ==
    Logged([fn |-> "validateUpdate", current |-> current, updates |-> updates],
           CASE rule = "orderRule" -> OrderRule(updates, current)
             [] OTHER -> Success(Undefined))

\* validateUpdate(current, updates) for a named rule, recorded in the log.
ApplyRule(rule, current, updates) ==
    Logged([fn |-> "validateUpdate", current |-> current, updates |-> updates],
           CASE rule = "orderRule" -> OrderRule(current, updates)
             [] OTHER -> Success(Undefined))

UserSchema ==
    ZObject(<< Field("id", {"u1", "u2"}, FALSE),
               Field("name", {"John", "Jane"}, FALSE) >>)

OrderSchema ==
    ZObject(<< Field("id", {"o1"}, FALSE),
               Field("status", {"draft", "confirmed", "shipped"}, FALSE) >>)

OrderUpdateSchema ==
    ZObject(<< Field("status", {"confirmed", "shipped"}, FALSE) >>)

\* The update schema of the aggregate example: status may be left out.
BaseOrderUpdateSchema ==
    ZObject(<< Field("status", {"confirmed", "shipped"}, TRUE) >>)

MoneySchema ==
    ZObject(<< Field("amount", {"100", "200"}, FALSE),
               Field("currency", {"USD"}, FALSE) >>)

AccountSchema ==
    ZObject(<< Field("id", {"a1", "a2"}, FALSE),
               Field("name", {"John", "Jane"}, FALSE) >>)

AccountUpdateSchema ==
    ZObject(<< Field("name", {"John", "Jane", ""}, TRUE) >>)

EmailSchema ==
    ZObject(<< Field("value", {"a@x", "b@x"}, FALSE) >>)

UserCreatedPayloadSchema ==
    ZObject(<< Field("userId", {"u1", "u2"}, FALSE),
               Field("email", {"a@x"}, FALSE) >>)

\* The arguments of one factory call, and the sample values its callers use.
\* eventName is the name given to createPureDomainEvent, "" for the others.
Class(kind, ctor, schema, upd, rule, extractor, eventName, samples) ==
    [kind |-> kind, publicConstructor |-> ctor, schema |-> schema,
     updateSchema |-> upd, validateUpdate |-> rule,
     identifierExtractor |-> extractor, eventName |-> eventName,
     samples |-> samples]

Classes ==
    << Class("Entity", TRUE, UserSchema, Omitted, Omitted, Given("propsId"), "",
             [id |-> {"u1", "u2"}, name |-> {"John", "Jane"}]),
       Class("Entity", TRUE, OrderSchema, Given(OrderUpdateSchema),
             Given("orderRule"), Omitted, "",
             [id |-> {"o1"}, status |-> {"draft", "confirmed", "shipped", "lost"}]),
       Class("Entity", TRUE, MoneySchema, Given(ZNever), Omitted, Omitted, "",
             [amount |-> {"100", "200", "-1"}, currency |-> {"USD"}]),
       Class("Entity", TRUE, AccountSchema, Given(AccountUpdateSchema),
             Omitted, Omitted, "",
             [id |-> {"a1", "a2"}, name |-> {"John", ""}]),
       Class("AggregateRoot", TRUE, OrderSchema, Given(BaseOrderUpdateSchema),
             Given("orderRule"), Omitted, "",
             [id |-> {"o1"}, status |-> {"draft", "confirmed", "shipped", "lost"}]),
       Class("ValueObject", FALSE, EmailSchema, Omitted, Omitted, Omitted, "",
             [value |-> {"a@x", "b@x", "bad"}]),
       Class("ValueObject", TRUE, MoneySchema, Omitted, Omitted, Omitted, "",
             [amount |-> {"100", "200"}, currency |-> {"USD"}]),
       Class("DomainEvent", FALSE, UserCreatedPayloadSchema, Omitted, Omitted,
             Omitted, "UserCreated",
             [userId |-> {"u1", "u2", "x"}, email |-> {"a@x", "bad"}]) >>

ClassIds == DOMAIN Classes

HasIdentifier(c) == Classes[c].kind \in {"Entity", "AggregateRoot"}

\* The events handed to addEvent.
Events == {"e1", "e2"}

\* The objects a caller hands to class c: every key of the schema absent or
\* holding one of the sample values, in the schema's key order.
Absent == "absent"

ShapeKeys(shape) == {shape[i].key : i \in DOMAIN shape}

ToObject(shape, f) ==
    LET There(fd) == f[fd.key] # Absent
        s == SelectSeq(shape, There)
    IN  [i \in DOMAIN s |-> <<s[i].key, f[s[i].key]>>]

InputObjects(c) ==
    LET shape == Classes[c].schema.shape
        K == ShapeKeys(shape)
        V == UNION {Classes[c].samples[k] : k \in K} \cup {Absent}
    IN  {ToObject(shape, f) :
            f \in {g \in [K -> V] :
                    \A k \in K : g[k] \in Classes[c].samples[k] \cup {Absent}}}

\* The same object written with its keys in the opposite order.
Reverse(o) == [i \in DOMAIN o |-> o[Len(o) + 1 - i]]

\* A caller writes the keys of an object literal in any order.  The order is
\* observable through the equals of a value object only, so the callers of the
\* other classes write them in the schema's order.
Orders(c, O) ==
    IF Classes[c].kind = "ValueObject" THEN O \cup {Reverse(o) : o \in O} ELSE O

Inputs(c) ==
    {JsObject(o) : o \in Orders(c, InputObjects(c))} \cup {JsPrimitive}

\* The objects handed to a constructor hold every key of the schema, as the
\* parameter's type asks; their values need not satisfy the schema.
ObjectPool ==
    [c \in ClassIds |->
        Orders(c, {o \in InputObjects(c) :
                        Keys(o) = ShapeKeys(Classes[c].schema.shape)})]
InputPool == [c \in ClassIds |-> Inputs(c)]

(***************************************************************************)
(* Entity                                                                  *)
(***************************************************************************)
\* A named identifier extractor: (props) => props.id
ApplyExtractor(name, props) ==
    CASE name = "propsId" -> Get(props, "id")
      [] OTHER -> Undefined

\* Variant of ExtractIdentifier whose default falls back on the first property
\* when the properties have no id.
ExtractIdentifier_FirstField(c, props) ==
    IF Classes[c].identifierExtractor # Omitted
    THEN ApplyExtractor(Classes[c].identifierExtractor[1], props)
    ELSE IF Has(props, "id") \/ props = <<>> THEN Get(props, "id")
    ELSE props[1][2]

\* identifierExtractor || ((props) => props.id), applied to the properties.
ExtractIdentifier(c, props) ==
    IF Classes[c].identifierExtractor # Omitted
    THEN ApplyExtractor(Classes[c].identifierExtractor[1], props)
    ELSE Get(props, "id")

\* new Entity(properties)
EntityConstructor(c, properties) ==
    LET props == SpreadCopy(properties)
    IN  [cls |-> c, properties |-> props,
         identifier |-> ExtractIdentifier(c, props)]

\* Variant of EntityCreate that constructs from the data as given.
EntityCreate_Unvalidated(c, data) ==
    Logged([fn |-> "new", data |-> data.entries],
           Success(EntityConstructor(c, data.entries)))

\* Entity.create(data)
EntityCreate(c, data) ==
    LET Build(validatedData) ==
            Logged([fn |-> "new", data |-> validatedData],
                   Success(EntityConstructor(c, validatedData)))
        parsed == PureZodParse(data, Classes[c].schema)
    IN  ChainSuccess(parsed, Build(parsed.value))

\* Variant of EffectiveUpdateSchema that ignores the update schema given.
EffectiveUpdateSchema_AlwaysFull(c) == Classes[c].schema

\* updateSchema || schema
EffectiveUpdateSchema(c) ==
    IF Classes[c].updateSchema # Omitted
    THEN Classes[c].updateSchema[1]
    ELSE Classes[c].schema

\* Variant of EntityMerge that re-validates with schema.parse, which
\* throws the issues it finds.
EntityMerge_ParseThrows(c, self, validatedUpdates) ==
    LET mergedData == SpreadMerge(self.properties, validatedUpdates)
        parsed == PureZodParse(JsObject(mergedData), Classes[c].schema)
    IN  Logged([fn |-> "merge", data |-> mergedData],
               IF parsed.ok THEN parsed
               ELSE [Thrown(parsed.errors) EXCEPT !.log = parsed.log])

\* Variant of EntityMerge that returns the merged data without re-validating.
EntityMerge_NoRevalidate(c, self, validatedUpdates) ==
    LET mergedData == SpreadMerge(self.properties, validatedUpdates)
    IN  Logged([fn |-> "merge", data |-> mergedData], Success(mergedData))

\* const mergedData = { ...this.properties, ...validatedUpdates };
\* return pureZodParse(mergedData, schema);
EntityMerge(c, self, validatedUpdates) ==
    LET mergedData == SpreadMerge(self.properties, validatedUpdates)
    IN  Logged([fn |-> "merge", data |-> mergedData],
               PureZodParse(JsObject(mergedData), Classes[c].schema))

\* Variant of EntityAfterUpdates that calls the rule and merges whatever the
\* rule answers.
EntityAfterUpdates_IgnoreRule(c, self, validatedUpdates) ==
    LET m == EntityMerge(c, self, validatedUpdates)
    IN  IF Classes[c].validateUpdate # Omitted
        THEN LET r == ApplyRule(Classes[c].validateUpdate[1], self.properties,
                                validatedUpdates)
             IN  [m EXCEPT !.log = r.log \o @]
        ELSE m

\* The callback chained after the validation of the updates: the business
\* rule, when one was given, then the merge.
EntityAfterUpdates(c, self, validatedUpdates) ==
    IF Classes[c].validateUpdate # Omitted
    THEN ChainSuccess(ApplyRule(Classes[c].validateUpdate[1], self.properties,
                                validatedUpdates),
                      EntityMerge(c, self, validatedUpdates))
    ELSE EntityMerge(c, self, validatedUpdates)

\* Variant of EntityBuild that carries the receiver's identifier over.
EntityBuild_KeepIdentifier(c, self, validatedData) ==
    Logged([fn |-> "new", data |-> validatedData],
           Success([EntityConstructor(c, validatedData)
                        EXCEPT !.identifier = self.identifier]))

\* The callback mapped over the re-validated data: new Entity(validatedData)
EntityBuild(c, self, validatedData) ==
    Logged([fn |-> "new", data |-> validatedData],
           Success(EntityConstructor(c, validatedData)))

\* Variant of EntityPatchResult that hands the updates to the callback without
\* validating them against the update schema.
EntityPatchResult_NoUpdateParse(c, self, updates) ==
    LET merged == EntityAfterUpdates(c, self, updates.entries)
    IN  ChainSuccess(merged, EntityBuild(c, self, merged.value))

\* Variant of EntityPatchResult that hands the rule the validated updates and
\* merges the updates as given.
EntityPatchResult_MergeRaw(c, self, updates) ==
    LET parsed == PureZodParse(updates, EffectiveUpdateSchema(c))
        ruled == IF Classes[c].validateUpdate # Omitted
                 THEN ChainSuccess(parsed,
                                   ApplyRule(Classes[c].validateUpdate[1],
                                             self.properties, parsed.value))
                 ELSE parsed
        merged == ChainSuccess(ruled, EntityMerge(c, self, updates.entries))
    IN  ChainSuccess(merged, EntityBuild(c, self, merged.value))

\* Variant of EntityPatchResult that validates the updates and then merges the
\* updates as given, not as validated.
EntityPatchResult_RawUpdates(c, self, updates) ==
    LET parsed == PureZodParse(updates, EffectiveUpdateSchema(c))
        merged == ChainSuccess(parsed,
                               EntityAfterUpdates(c, self, updates.entries))
    IN  ChainSuccess(merged, EntityBuild(c, self, merged.value))

\* The Result of self.patch(updates) on an entity.
EntityPatchResult(c, self, updates) ==
    LET parsed == PureZodParse(updates, EffectiveUpdateSchema(c))
        merged == ChainSuccess(parsed, EntityAfterUpdates(c, self, parsed.value))
    IN  ChainSuccess(merged, EntityBuild(c, self, merged.value))

\* Variant of EntityPatch that writes the new properties into the receiver.
EntityPatch_InPlace(c, self, updates) ==
    LET r == EntityPatchResult(c, self, updates)
    IN  [result |-> r,
         self |-> IF r.ok
                  THEN [self EXCEPT !.properties = r.value.properties]
                  ELSE self]

\* self.patch(updates): the Result, and the receiver as the call leaves it.
EntityPatch(c, self, updates) ==
    [result |-> EntityPatchResult(c, self, updates), self |-> self]

\* Variant of EntityEquals that asks the other object to be of the same class.
EntityEquals_SameClass(self, other) ==
    /\ self.cls = other.cls
    /\ self.identifier = other.identifier

\* self.equals(other)
EntityEquals(self, other) == self.identifier = other.identifier

(***************************************************************************)
(* Aggregate root                                                          *)
(***************************************************************************)
\* new AggregateRoot(properties, events = [])
AggregateRootConstructor(c, properties, events) ==
    LET props == SpreadCopy(properties)
    IN  [cls |-> c, properties |-> props,
         identifier |-> ExtractIdentifier(c, props),
         domainEvents |-> [i \in DOMAIN events |-> events[i]]]

\* Variant of AggregateRootCreate that constructs from the data as given.
AggregateRootCreate_Unvalidated(c, data) ==
    Logged([fn |-> "new", data |-> data.entries],
           Success(AggregateRootConstructor(c, data.entries, <<>>)))

\* AggregateRoot.create(data)
AggregateRootCreate(c, data) ==
    LET Build(validatedData) ==
            Logged([fn |-> "new", data |-> validatedData],
                   Success(AggregateRootConstructor(c, validatedData, <<>>)))
        parsed == PureZodParse(data, Classes[c].schema)
    IN  ChainSuccess(parsed, Build(parsed.value))

\* Variant of AggregateRootMerge that re-validates the updates alone.
AggregateRootMerge_UpdatesOnly(c, self, validatedUpdates) ==
    LET mergedData == SpreadCopy(validatedUpdates)
    IN  Logged([fn |-> "merge", data |-> mergedData],
               PureZodParse(JsObject(mergedData), Classes[c].schema))

\* const mergedData = { ...this.properties, ...validatedUpdates };
\* return pureZodParse(mergedData, schema);
AggregateRootMerge(c, self, validatedUpdates) ==
    LET mergedData == SpreadMerge(self.properties, validatedUpdates)
    IN  Logged([fn |-> "merge", data |-> mergedData],
               PureZodParse(JsObject(mergedData), Classes[c].schema))

\* Variant of AggregateRootAfterUpdates that merges and re-validates first and
\* asks the rule afterwards.
AggregateRootAfterUpdates_RuleAfterMerge(c, self, validatedUpdates) ==
    LET merged == AggregateRootMerge(c, self, validatedUpdates)
    IN  IF Classes[c].validateUpdate # Omitted /\ merged.ok
        THEN LET r == ApplyRule(Classes[c].validateUpdate[1], self.properties,
                                validatedUpdates)
             IN  IF r.ok THEN [merged EXCEPT !.log = @ \o r.log]
                         ELSE [r EXCEPT !.log = merged.log \o @]
        ELSE merged

\* The callback chained after the validation of the updates.
AggregateRootAfterUpdates(c, self, validatedUpdates) ==
    IF Classes[c].validateUpdate # Omitted
    THEN ChainSuccess(ApplyRule(Classes[c].validateUpdate[1], self.properties,
                                validatedUpdates),
                      AggregateRootMerge(c, self, validatedUpdates))
    ELSE AggregateRootMerge(c, self, validatedUpdates)

\* Variant of AggregateRootBuild that constructs without the events.
AggregateRootBuild_DropEvents(c, self, validatedData) ==
    Logged([fn |-> "new", data |-> validatedData],
           Success(AggregateRootConstructor(c, validatedData, <<>>)))

\* new AggregateRoot(validatedData, this.domainEvents)
AggregateRootBuild(c, self, validatedData) ==
    Logged([fn |-> "new", data |-> validatedData],
           Success(AggregateRootConstructor(c, validatedData,
                                            self.domainEvents)))

\* The Result of self.patch(updates) on an aggregate root.
AggregateRootPatchResult(c, self, updates) ==
    LET parsed == PureZodParse(updates, EffectiveUpdateSchema(c))
        merged == ChainSuccess(parsed,
                               AggregateRootAfterUpdates(c, self, parsed.value))
    IN  ChainSuccess(merged, AggregateRootBuild(c, self, merged.value))

\* self.patch(updates): the Result, and the receiver as the call leaves it.
AggregateRootPatch(c, self, updates) ==
    [result |-> AggregateRootPatchResult(c, self, updates), self |-> self]

\* Variant of AddEventCall that puts the event in front of the others.
AddEventCall_Prepend(c, self, event) ==
    LET newEvents == <<event>> \o self.domainEvents
    IN  [result |-> AggregateRootConstructor(c, self.properties, newEvents),
         self |-> self]

\* self.addEvent(event): the new aggregate, and the receiver afterwards.
AddEventCall(c, self, event) ==
    LET newEvents == Append(self.domainEvents, event)
    IN  [result |-> AggregateRootConstructor(c, self.properties, newEvents),
         self |-> self]

\* Variant of ClearEventsCall that also empties the receiver's events.
ClearEventsCall_InPlace(c, self) ==
    [result |-> AggregateRootConstructor(c, self.properties, <<>>),
     self |-> [self EXCEPT !.domainEvents = <<>>]]

\* self.clearEvents(): the new aggregate, and the receiver afterwards.
ClearEventsCall(c, self) ==
    [result |-> AggregateRootConstructor(c, self.properties, <<>>),
     self |-> self]

\* Variant of AggregateRootEquals that compares the properties and the events.
AggregateRootEquals_Structural(self, other) ==
    /\ self.properties = other.properties
    /\ self.domainEvents = other.domainEvents

\* self.equals(other)
AggregateRootEquals(self, other) == self.identifier = other.identifier

(***************************************************************************)
(* Value object                                                            *)
(***************************************************************************)
\* new ValueObject(properties)
ValueObjectConstructor(c, properties) ==
    [cls |-> c, properties |-> SpreadCopy(properties)]

\* ValueObject.create(data)
ValueObjectCreate(c, data) ==
    LET Build(validatedData) ==
            Logged([fn |-> "new", data |-> validatedData],
                   Success(ValueObjectConstructor(c, validatedData)))
        parsed == PureZodParse(data, Classes[c].schema)
    IN  ChainSuccess(parsed, Build(parsed.value))

\* JSON.stringify(properties): the keys and values in the object's own key
\* order.  The quoting and the punctuation are the same for every object.
JsonStringify(o) == [i \in DOMAIN o |-> <<o[i][1], o[i][2]>>]

\* Variant of ValueObjectEquals that compares the keys and not the values.
ValueObjectEquals_KeysOnly(self, other) ==
    [i \in DOMAIN self.properties |-> self.properties[i][1]]
        = [i \in DOMAIN other.properties |-> other.properties[i][1]]

\* self.equals(other)
ValueObjectEquals(self, other) ==
    JsonStringify(self.properties) = JsonStringify(other.properties)

(***************************************************************************)
(* Domain event                                                            *)
(***************************************************************************)
\* Variant of DomainEventConstructor that stamps every event with the reading
\* taken when the class was made.
DomainEventConstructor_ClockAtFactory(c, payload, now) ==
    [cls |-> c, eventName |-> Classes[c].eventName, occurredOn |-> 0,
     payload |-> SpreadCopy(payload)]

\* new DomainEvent(payload), constructed when the clock reads now.
DomainEventConstructor(c, payload, now) ==
    [cls |-> c, eventName |-> Classes[c].eventName, occurredOn |-> now,
     payload |-> SpreadCopy(payload)]

\* Variant of DomainEventCreate that constructs from the payload as given.
DomainEventCreate_Unvalidated(c, payload, now) ==
    Logged([fn |-> "new", data |-> payload.entries],
           Success(DomainEventConstructor(c, payload.entries, now)))

\* DomainEvent.create(payload)
DomainEventCreate(c, payload, now) ==
    LET Build(validatedPayload) ==
            Logged([fn |-> "new", data |-> validatedPayload],
                   Success(DomainEventConstructor(c, validatedPayload, now)))
        parsed == PureZodParse(payload, Classes[c].schema)
    IN  ChainSuccess(parsed, Build(parsed.value))

(***************************************************************************)
(* The program: a caller holding the instances made so far                  *)
(***************************************************************************)
VARIABLES
    heap,   \* the instances constructed so far, in construction order
    last,   \* the most recent call: what was called, on what, and its outcome
    clock,  \* what new Date() read when a constructor last called it
    propertiesAt,   \* per instance, the object its properties field refers to
    sinceClear  \* history: per instance, the events handed to addEvent along
                \* the calls that led to it, since the latest clearEvents

vars == <<heap, last, clock, propertiesAt, sinceClear>>

\* Object identities.  The object literal a caller hands to the call that
\* makes instance n, the object the validator returns in that call, and the
\* object a constructor allocates for instance n.
InputAt(n) == <<"input", n>>
ValidatedAt(n) == <<"validated", n>>
InstanceAt(n) == <<"instance", n>>

\* Variant of CopyAddress that stores the argument itself.
CopyAddress_Alias(argument, fresh) == argument

\* this.properties = { ...properties }: the field refers to a new object, not
\* to the constructor's argument.
CopyAddress(argument, fresh) == fresh

Call(op, c, receiver, input, event, ok, errors, log, made) ==
    [op |-> op, cls |-> c, receiver |-> receiver, input |-> input,
     event |-> event, ok |-> ok, errors |-> errors, log |-> log, made |-> made,
     other |-> 0, answer |-> FALSE, threw |-> FALSE]

Init ==
    /\ heap = <<>>
    /\ clock = 0
    /\ last = Call("none", 0, 0, JsPrimitive, "", TRUE, <<>>, <<>>, 0)
    /\ propertiesAt = <<>>
    /\ sinceClear = <<>>

\* The heap once a call returned: the receiver as the call left it, and the
\* instance the call made, if any.
Store(receiver, self, ok, made) ==
    LET kept == IF receiver = 0 THEN heap ELSE [heap EXCEPT ![receiver] = self]
    IN  IF ok THEN Append(kept, made) ELSE kept

\* A caller makes its calls while it holds fewer than MaxInstances instances.
Room == Len(heap) < MaxInstances

\* One behaviour follows the instances of one class.
OneClass(c) == \A i \in DOMAIN heap : heap[i].cls = c

\* C.create(data) on the class of kind k.
CreateOf(c, data, now) ==
    CASE Classes[c].kind = "Entity" -> EntityCreate(c, data)
      [] Classes[c].kind = "AggregateRoot" -> AggregateRootCreate(c, data)
      [] Classes[c].kind = "ValueObject" -> ValueObjectCreate(c, data)
      [] Classes[c].kind = "DomainEvent" -> DomainEventCreate(c, data, now)

\* What new Date() may read in a create of class c: the clock does not run
\* backwards, and only the constructor of a domain event reads it.
Now(c) == IF Classes[c].kind = "DomainEvent" THEN clock..MaxClock ELSE {clock}

Create(c, data) ==
    \E now \in Now(c) :
        LET r == CreateOf(c, data, now)
        IN  /\ OneClass(c)
            /\ Room
            /\ heap' = Store(0, <<>>, r.ok, r.value)
            /\ last' = [Call("create", c, 0, data, "", r.ok, r.errors, r.log,
                             IF r.ok THEN Len(heap) + 1 ELSE 0)
                            EXCEPT !.threw = r.threw]
            /\ clock' = IF r.ok THEN now ELSE clock
            /\ propertiesAt' =
                    IF r.ok
                    THEN Append(propertiesAt,
                                CopyAddress(ValidatedAt(Len(heap) + 1),
                                            InstanceAt(Len(heap) + 1)))
                    ELSE propertiesAt
            /\ sinceClear' = IF r.ok THEN Append(sinceClear, <<>>)
                                      ELSE sinceClear

\* new C(properties), where the class exposes its constructor.
ConstructOf(c, properties) ==
    CASE Classes[c].kind = "Entity" -> EntityConstructor(c, properties)
      [] Classes[c].kind = "AggregateRoot" ->
            AggregateRootConstructor(c, properties, <<>>)
      [] Classes[c].kind = "ValueObject" -> ValueObjectConstructor(c, properties)

Construct(c, properties) ==
    /\ Classes[c].publicConstructor
    /\ OneClass(c)
    /\ Room
    /\ heap' = Store(0, <<>>, TRUE, ConstructOf(c, properties))
    /\ last' = Call("new", c, 0, JsObject(properties), "", TRUE, <<>>, <<>>,
                    Len(heap) + 1)
    /\ propertiesAt' = Append(propertiesAt,
                              CopyAddress(InputAt(Len(heap) + 1),
                                          InstanceAt(Len(heap) + 1)))
    /\ sinceClear' = Append(sinceClear, <<>>)
    /\ UNCHANGED clock

PatchOf(c, self, updates) ==
    CASE Classes[c].kind = "Entity" -> EntityPatch(c, self, updates)
      [] Classes[c].kind = "AggregateRoot" -> AggregateRootPatch(c, self, updates)

Patch(i, updates) ==
    LET c == heap[i].cls
        out == PatchOf(c, heap[i], updates)
        r == out.result
    IN  /\ HasIdentifier(c)
        /\ Room
        /\ heap' = Store(i, out.self, r.ok, r.value)
        /\ last' = [Call("patch", c, i, updates, "", r.ok, r.errors, r.log,
                         IF r.ok THEN Len(heap) + 1 ELSE 0)
                        EXCEPT !.threw = r.threw]
        /\ propertiesAt' =
                IF r.ok
                THEN Append(propertiesAt,
                            CopyAddress(ValidatedAt(Len(heap) + 1),
                                        InstanceAt(Len(heap) + 1)))
                ELSE propertiesAt
        /\ sinceClear' = IF r.ok THEN Append(sinceClear, sinceClear[i])
                                  ELSE sinceClear
        /\ UNCHANGED clock

AddEvent(i, event) ==
    LET c == heap[i].cls
        out == AddEventCall(c, heap[i], event)
    IN  /\ Classes[c].kind = "AggregateRoot"
        /\ Room
        /\ Len(heap[i].domainEvents) < MaxEvents
        /\ heap' = Store(i, out.self, TRUE, out.result)
        /\ last' = Call("addEvent", c, i, JsPrimitive, event, TRUE, <<>>, <<>>,
                        Len(heap) + 1)
        /\ propertiesAt' = Append(propertiesAt,
                                  CopyAddress(propertiesAt[i],
                                              InstanceAt(Len(heap) + 1)))
        /\ sinceClear' = Append(sinceClear, Append(sinceClear[i], event))
        /\ UNCHANGED clock

ClearEvents(i) ==
    LET c == heap[i].cls
        out == ClearEventsCall(c, heap[i])
    IN  /\ Classes[c].kind = "AggregateRoot"
        /\ Room
        /\ heap' = Store(i, out.self, TRUE, out.result)
        /\ last' = Call("clearEvents", c, i, JsPrimitive, "", TRUE, <<>>, <<>>,
                        Len(heap) + 1)
        /\ propertiesAt' = Append(propertiesAt,
                                  CopyAddress(propertiesAt[i],
                                              InstanceAt(Len(heap) + 1)))
        /\ sinceClear' = Append(sinceClear, <<>>)
        /\ UNCHANGED clock

\* self.equals(other) on the class of kind k.
EqualsOf(c, self, other) ==
    CASE Classes[c].kind = "Entity" -> EntityEquals(self, other)
      [] Classes[c].kind = "AggregateRoot" -> AggregateRootEquals(self, other)
      [] Classes[c].kind = "ValueObject" -> ValueObjectEquals(self, other)

\* heap[i].equals(heap[j]): the call leaves both instances as they are and
\* answers a boolean.
Equals(i, j) ==
    LET c == heap[i].cls
    IN  /\ Classes[c].kind # "DomainEvent"
        /\ heap[j].cls = c
        /\ last' = [Call("equals", c, i, JsPrimitive, "", TRUE, <<>>, <<>>, 0)
                        EXCEPT !.other = j,
                               !.answer = EqualsOf(c, heap[i], heap[j])]
        /\ UNCHANGED <<heap, clock, propertiesAt, sinceClear>>

DoCreate == \E c \in ClassIds : \E data \in InputPool[c] : Create(c, data)
DoConstruct == \E c \in ClassIds : \E o \in ObjectPool[c] : Construct(c, o)
DoPatch == \E i \in DOMAIN heap : \E u \in InputPool[heap[i].cls] : Patch(i, u)
DoAddEvent == \E i \in DOMAIN heap : \E e \in Events : AddEvent(i, e)
DoClearEvents == \E i \in DOMAIN heap : ClearEvents(i)
DoEquals == \E i \in DOMAIN heap : \E j \in DOMAIN heap : Equals(i, j)

Next ==
    \/ DoCreate
    \/ DoConstruct
    \/ DoPatch
    \/ DoAddEvent
    \/ DoClearEvents
    \/ DoEquals

Spec == Init /\ [][Next]_vars

\* o[k] = v on an object that has the key: the value changes in place.
SetProperty(o, k, v) ==
    [n \in DOMAIN o |-> IF o[n][1] = k THEN <<k, v>> ELSE o[n]]

\* The heap once the object at an address had v written to its key k: every
\* instance whose properties field refers to that object reads the new value.
WriteAt(address, k, v) ==
    [j \in DOMAIN heap |->
        IF propertiesAt[j] = address
        THEN [heap[j] EXCEPT !.properties = SetProperty(heap[j].properties, k, v)]
        ELSE heap[j]]

\* heap[i].properties[k] = v, written by a caller.  The constructor stores a
\* plain copy of its argument, which accepts the write; the identifier was
\* computed at construction and stays.
WriteProperty(i, k, v) ==
    LET c == heap[i].cls
    IN  /\ Classes[c].kind # "DomainEvent"
        /\ Has(heap[i].properties, k)
        /\ heap' = WriteAt(propertiesAt[i], k, v)
        /\ last' = Call("write", c, i, JsObject(<< <<k, v>> >>), "", TRUE,
                        <<>>, <<>>, 0)
        /\ UNCHANGED <<clock, propertiesAt, sinceClear>>

\* input[k] = v, written by a caller to the object it handed to the create or
\* the constructor call that has just returned an instance.
WriteInput(k, v) ==
    /\ last.op \in {"create", "new"}
    /\ last.made # 0
    /\ Classes[last.cls].kind # "DomainEvent"
    /\ heap' = WriteAt(InputAt(last.made), k, v)
    /\ last' = Call("writeInput", last.cls, last.made, JsObject(<< <<k, v>> >>),
                    "", TRUE, <<>>, <<>>, 0)
    /\ UNCHANGED <<clock, propertiesAt, sinceClear>>

DoWriteProperty ==
    \E i \in DOMAIN heap :
        \E k \in ShapeKeys(Classes[heap[i].cls].schema.shape) :
            \E v \in Classes[heap[i].cls].samples[k] : WriteProperty(i, k, v)

DoWriteInput ==
    /\ last.cls \in ClassIds
    /\ \E k \in ShapeKeys(Classes[last.cls].schema.shape) :
            \E v \in Classes[last.cls].samples[k] : WriteInput(k, v)

\* The classes used by callers that also write to the properties they read
\* and to the objects they handed over.
NextWrites ==
    \/ Next
    \/ DoWriteProperty
    \/ DoWriteInput

SpecWrites == Init /\ [][NextWrites]_vars

\* The same callers, followed while they hold at most MaxShared instances.
NextShared ==
    \/ Len(heap) < MaxShared /\ Next
    \/ DoWriteProperty
    \/ DoWriteInput

SpecShared == Init /\ [][NextShared]_vars

\* The event OrderCreatedEvent.create answers in the documented create of
\* an order: its payload is read from the data the order schema has just
\* accepted, so the creation succeeds.
OrderCreatedEvent == "OrderCreated"

\* class Order extends BaseOrder { static override create(data) }: calls
\* super.create(data), on success calls order.addEvent(event) and drops what
\* the call returns, then returns the result of super.create.
OrderCreate(c, data) ==
    LET result == AggregateRootCreate(c, data)
        order == AddEventCall(c, result.value, OrderCreatedEvent).self
    IN  /\ Classes[c].kind = "AggregateRoot"
        /\ OneClass(c)
        /\ Len(heap) < MaxShared
        /\ heap' = Store(0, <<>>, result.ok, IF result.ok THEN order ELSE <<>>)
        /\ last' = [Call("Order.create", c, 0, data, OrderCreatedEvent,
                         result.ok, result.errors, result.log,
                         IF result.ok THEN Len(heap) + 1 ELSE 0)
                        EXCEPT !.threw = result.threw]
        /\ propertiesAt' =
                IF result.ok
                THEN Append(propertiesAt,
                            CopyAddress(ValidatedAt(Len(heap) + 1),
                                        InstanceAt(Len(heap) + 1)))
                ELSE propertiesAt
        /\ sinceClear' = IF result.ok THEN Append(sinceClear, <<>>)
                                       ELSE sinceClear
        /\ UNCHANGED clock

DoOrderCreate == \E c \in ClassIds : \E data \in InputPool[c] : OrderCreate(c, data)

\* The callers of a class that overrides create as documented, followed while
\* they hold at most MaxShared instances.
NextOverride ==
    \/ Len(heap) < MaxShared /\ Next
    \/ DoOrderCreate

SpecOverride == Init /\ [][NextOverride]_vars

\* C.create(data) by a caller that already holds instances of another class
\* with an identifier.
CreateAcross(c, data) ==
    LET r == CreateOf(c, data, clock)
    IN  /\ HasIdentifier(c)
        /\ heap # <<>>
        /\ \A i \in DOMAIN heap : HasIdentifier(heap[i].cls)
        /\ ~OneClass(c)
        /\ Len(heap) < MaxShared
        /\ heap' = Store(0, <<>>, r.ok, r.value)
        /\ last' = [Call("create", c, 0, data, "", r.ok, r.errors, r.log,
                         IF r.ok THEN Len(heap) + 1 ELSE 0)
                        EXCEPT !.threw = r.threw]
        /\ propertiesAt' =
                IF r.ok
                THEN Append(propertiesAt,
                            CopyAddress(ValidatedAt(Len(heap) + 1),
                                        InstanceAt(Len(heap) + 1)))
                ELSE propertiesAt
        /\ sinceClear' = IF r.ok THEN Append(sinceClear, <<>>)
                                  ELSE sinceClear
        /\ UNCHANGED clock

\* heap[i].equals(heap[j]) where heap[j] is an instance of another class: the
\* parameter's type is structural, and the method reads other.identifier.
EqualsAcross(i, j) ==
    LET c == heap[i].cls
    IN  /\ HasIdentifier(c)
        /\ HasIdentifier(heap[j].cls)
        /\ heap[j].cls # c
        /\ last' = [Call("equals", c, i, JsPrimitive, "", TRUE, <<>>, <<>>, 0)
                        EXCEPT !.other = j,
                               !.answer = EqualsOf(c, heap[i], heap[j])]
        /\ UNCHANGED <<heap, clock, propertiesAt, sinceClear>>

DoCreateAcross ==
    \E c \in ClassIds : \E data \in InputPool[c] : CreateAcross(c, data)
DoEqualsAcross ==
    \E i \in DOMAIN heap : \E j \in DOMAIN heap : EqualsAcross(i, j)

\* The callers that hold instances of several classes, at most MaxShared
\* instances at a time.
NextMixed ==
    \/ /\ Len(heap) < MaxShared
       /\ \/ DoCreate
          \/ DoConstruct
          \/ DoPatch
          \/ DoAddEvent
          \/ DoClearEvents
    \/ DoEquals
    \/ DoCreateAcross
    \/ DoEqualsAcross

SpecMixed == Init /\ [][NextMixed]_vars

(***************************************************************************)
(* Properties                                                              *)
(***************************************************************************)
KindOf(c) == Classes[c].kind

\* The validated data an instance holds.
DataOf(inst) ==
    IF KindOf(inst.cls) = "DomainEvent" THEN inst.payload ELSE inst.properties

\* props is what a successful validation against the schema of c returns.
IsValidated(c, props) ==
    LET r == SafeParse(JsObject(props), Classes[c].schema)
    IN  r.ok /\ r.value = props

HasCall(log, fn) == \E n \in DOMAIN log : log[n].fn = fn

\* The step is a call of op.
CallStep(op) == last'.op = op /\ ~UNCHANGED <<heap, last>>

\* C1: every Entity, AggregateRoot or ValueObject instance that exists,
\* however it was obtained, holds properties that are the output of a
\* successful validation against the full schema of its class.
C1_PropertiesAlwaysValidated ==
    \A i \in DOMAIN heap :
        KindOf(heap[i].cls) # "DomainEvent"
            => IsValidated(heap[i].cls, heap[i].properties)

\* C2: create(data) returns, when data satisfies the schema, a success
\* holding one new instance whose properties (payload, for an event) are the
\* validated data and, for an Entity or AggregateRoot, whose identifier is
\* the identifier extractor applied to them; otherwise it returns a failure
\* with the validator's errors and constructs nothing.
C2_CreateStep ==
    CallStep("create") =>
        LET c == last'.cls
            v == SafeParse(last'.input, Classes[c].schema)
        IN  IF v.ok
            THEN /\ last'.ok
                 /\ last'.made = Len(heap) + 1
                 /\ Len(heap') = Len(heap) + 1
                 /\ SubSeq(heap', 1, Len(heap)) = heap
                 /\ heap'[last'.made].cls = c
                 /\ DataOf(heap'[last'.made]) = v.value
                 /\ HasIdentifier(c) =>
                        heap'[last'.made].identifier =
                            ExtractIdentifier(c, v.value)
            ELSE /\ ~last'.ok
                 /\ last'.errors = v.errors
                 /\ last'.made = 0
                 /\ ~HasCall(last'.log, "new")
                 /\ heap' = heap

C2_Create == [][C2_CreateStep]_vars

\* A create that succeeded and a create that failed, of a class with an
\* identifier.
C2_Witness ==
    /\ last.op = "create"
    /\ last.ok
    /\ HasIdentifier(last.cls)
    /\ heap[last.made].identifier # Undefined
    /\ Len(heap) > 1

C2_WitnessFailure ==
    /\ last.op = "create"
    /\ ~last.ok
    /\ last.input.isObject

\* The values a payload gives to the keys of a schema all satisfy it, and the
\* payload names some of the keys of the schema but not all of them.
IsValidSubset(c, u) ==
    LET shape == Classes[c].schema.shape
    IN  /\ u # <<>>
        /\ Keys(u) \subseteq ShapeKeys(shape)
        /\ Keys(u) # ShapeKeys(shape)
        /\ \A n \in DOMAIN shape :
                Has(u, shape[n].key) => Get(u, shape[n].key) \in shape[n].accepts

\* C3: on a class made with updateSchema omitted, patch with a payload that
\* holds valid values for only some of the schema's fields succeeds, and the
\* new instance has the payload's values for those fields and the receiver's
\* values for the others.
C3_PartialPatchOfFullyMutable ==
    ( /\ last.op = "patch"
      /\ Classes[last.cls].updateSchema = Omitted
      /\ last.input.isObject
      /\ IsValidSubset(last.cls, last.input.entries)
      /\ IsValidated(last.cls, heap[last.receiver].properties) )
    => /\ last.ok
       /\ \A k \in ShapeKeys(Classes[last.cls].schema.shape) :
             Get(heap[last.made].properties, k) =
                IF Has(last.input.entries, k)
                THEN Get(last.input.entries, k)
                ELSE Get(heap[last.receiver].properties, k)

\* What the call recorded in a call record was given and found.
UpdatesParse(call) == SafeParse(call.input, EffectiveUpdateSchema(call.cls))

PatchCount(log, fn) == Cardinality({n \in DOMAIN log : log[n].fn = fn})

\* C4: a successful patch returns a new instance whose properties are the
\* validation, against the full schema, of the receiver's properties merged
\* with the validated updates, the update's value winning on a shared key.
C4_PatchStep ==
    (CallStep("patch") /\ last'.ok) =>
        LET c == last'.cls
            self == heap[last'.receiver]
            u == UpdatesParse(last').value
            made == heap'[last'.made]
        IN  /\ last'.made = Len(heap) + 1
            /\ made.cls = c
            /\ IsValidated(c, made.properties)
            /\ \A k \in ShapeKeys(Classes[c].schema.shape) :
                    Get(made.properties, k) =
                        IF Has(u, k) THEN Get(u, k) ELSE Get(self.properties, k)

C4_PatchMerges == [][C4_PatchStep]_vars

\* A patch gave a field a new value and kept another field of the receiver.
C4_Witness ==
    /\ last.op = "patch"
    /\ last.ok
    /\ \E k \in Keys(heap[last.made].properties) :
            /\ Has(last.input.entries, k)
            /\ Get(heap[last.made].properties, k)
                    # Get(heap[last.receiver].properties, k)
    /\ \E k \in Keys(heap[last.made].properties) :
            /\ ~Has(last.input.entries, k)
            /\ Get(heap[last.made].properties, k)
                    = Get(heap[last.receiver].properties, k)

\* C5: a patch whose payload fails the effective update schema returns a
\* failure with those validation errors, and the call invokes neither
\* validateUpdate, nor the merge, nor the re-validation, nor a constructor.
C5_InvalidUpdateShortCircuits ==
    (last.op = "patch" /\ ~UpdatesParse(last).ok) =>
        /\ ~last.ok
        /\ last.errors = UpdatesParse(last).errors
        /\ last.made = 0
        /\ Len(last.log) = 1
        /\ last.log[1].fn = "pureZodParse"
        /\ last.log[1].data = last.input

\* An object payload failed the update schema of a class with a business rule.
C5_Witness ==
    /\ last.op = "patch"
    /\ Classes[last.cls].validateUpdate # Omitted
    /\ last.input.isObject
    /\ ~UpdatesParse(last).ok

\* C6: a patch whose payload is schema-valid and whose business rule fails
\* returns a failure with the rule's error; nothing is merged, nothing is
\* re-validated and no instance is constructed.
C6_RuleStep ==
    ( /\ CallStep("patch")
      /\ Classes[last'.cls].validateUpdate # Omitted
      /\ UpdatesParse(last').ok
      /\ ~OrderRule(heap[last'.receiver].properties,
                    UpdatesParse(last').value).ok )
    => /\ ~last'.ok
       /\ last'.errors = OrderRule(heap[last'.receiver].properties,
                                   UpdatesParse(last').value).errors
       /\ last'.made = 0
       /\ heap' = heap
       /\ ~HasCall(last'.log, "merge")
       /\ ~HasCall(last'.log, "new")
       /\ PatchCount(last'.log, "pureZodParse") = 1

C6_RuleFailureShortCircuits == [][C6_RuleStep]_vars

\* The rule rejected shipping an order that is not confirmed.
C6_Witness ==
    /\ last.op = "patch"
    /\ last.errors = << <<"cannotShipUnconfirmedOrder">> >>
    /\ IsValidated(last.cls, heap[last.receiver].properties)

\* C7: a patch whose payload is schema-valid and passes the business rule,
\* but whose merged object fails the full schema, returns a failure and
\* constructs no instance.
C7_MergedStep ==
    LET c == last'.cls
        self == heap[last'.receiver]
        u == UpdatesParse(last')
        merged == SafeParse(JsObject(SpreadMerge(self.properties, u.value)),
                            Classes[c].schema)
    IN  ( /\ CallStep("patch")
          /\ u.ok
          /\ Classes[c].validateUpdate # Omitted
                => OrderRule(self.properties, u.value).ok
          /\ ~merged.ok )
        => /\ ~last'.ok
           /\ last'.errors = merged.errors
           /\ last'.made = 0
           /\ heap' = heap
           /\ ~HasCall(last'.log, "new")

C7_InvalidMergeFails == [][C7_MergedStep]_vars

\* A valid update of a validated receiver produced an invalid whole.
C7_Witness ==
    /\ last.op = "patch"
    /\ UpdatesParse(last).ok
    /\ HasCall(last.log, "merge")
    /\ ~last.ok
    /\ IsValidated(last.cls, heap[last.receiver].properties)

\* C8: patch never mutates its receiver: every instance that exists before
\* the call, the receiver included, has the same properties, identifier and
\* domain events after it, whether the call succeeds or fails.
C8_PatchStep ==
    CallStep("patch") => \A i \in DOMAIN heap : heap'[i] = heap[i]

C8_PatchLeavesReceiver == [][C8_PatchStep]_vars

\* A patch made an instance whose properties differ from its receiver's.
C8_Witness ==
    /\ last.op = "patch"
    /\ last.ok
    /\ heap[last.made].properties # heap[last.receiver].properties

\* C9: on a class whose update schema is z.never(), every patch fails with
\* any payload, leaves the receiver as it was and makes no instance.
C9_NeverStep ==
    (CallStep("patch") /\ Classes[last'.cls].updateSchema = Given(ZNever))
        => ~last'.ok /\ last'.made = 0 /\ heap' = heap

C9_NeverSchemaRejectsAll == [][C9_NeverStep]_vars

\* A payload the full schema accepts was offered to such a class.
C9_Witness ==
    /\ last.op = "patch"
    /\ Classes[last.cls].updateSchema = Given(ZNever)
    /\ last.input.isObject
    /\ IsValidated(last.cls, last.input.entries)
    /\ IsValidated(last.cls, heap[last.receiver].properties)

\* C10: the identifier of every Entity and AggregateRoot instance is the
\* class's identifier extractor applied to the instance's own properties,
\* whichever operation made it, and it never changes once constructed.
IdentifiersExtracted ==
    \A i \in DOMAIN heap :
        HasIdentifier(heap[i].cls) =>
            heap[i].identifier =
                (IF Classes[heap[i].cls].identifierExtractor = Omitted
                 THEN Get(heap[i].properties, "id")
                 ELSE ApplyExtractor(Classes[heap[i].cls].identifierExtractor[1],
                                     heap[i].properties))

C10_IdentifierStep ==
    /\ IdentifiersExtracted'
    /\ \A i \in DOMAIN heap :
            HasIdentifier(heap[i].cls) =>
                heap'[i].identifier = heap[i].identifier

C10_IdentifierFromProperties == [][C10_IdentifierStep]_vars

\* A patch made an instance with another identifier than its receiver's.
C10_Witness ==
    /\ last.op = "patch"
    /\ last.ok
    /\ heap[last.made].identifier # heap[last.receiver].identifier

\* The fields of the properties the identifier extractor of c reads.
ExtractorReads(c) == {"id"}

\* The update schema of c names none of the keys K.
UpdateSchemaExcludes(c, K) ==
    \/ EffectiveUpdateSchema(c).isNever
    \/ ShapeKeys(EffectiveUpdateSchema(c).shape) \cap K = {}

\* C11: on a class whose update schema excludes every field the identifier
\* extractor reads, every successful patch returns an instance with the
\* receiver's identifier, so that each instance of a chain of successful
\* patches has the identifier of the first.
C11_StableStep ==
    ( /\ CallStep("patch")
      /\ last'.ok
      /\ UpdateSchemaExcludes(last'.cls, ExtractorReads(last'.cls)) )
    => heap'[last'.made].identifier = heap[last'.receiver].identifier

C11_IdentifierStableAcrossPatch == [][C11_StableStep]_vars

\* A successful patch with a payload that names another identifier than the
\* receiver's, which the update schema strips.
C11_Witness ==
    /\ last.op = "patch"
    /\ last.ok
    /\ UpdateSchemaExcludes(last.cls, ExtractorReads(last.cls))
    /\ Has(last.input.entries, "id")
    /\ Get(last.input.entries, "id") # heap[last.receiver].identifier
    /\ heap[last.made].identifier = heap[last.receiver].identifier

\* The payload {}.
EmptyPayload == JsObject(<<>>)

\* C12: on an Entity or AggregateRoot class whose update schema accepts the
\* empty payload, patch({}) on an instance holding validated properties
\* succeeds and returns an instance with the same properties, key for key and
\* in the same order; the result is again such an instance, so repeating the
\* empty patch keeps them.
C12_EmptyStep ==
    ( /\ CallStep("patch")
      /\ last'.input = EmptyPayload
      /\ UpdatesParse(last').ok
      /\ IsValidated(last'.cls, heap[last'.receiver].properties) )
    => /\ last'.ok
       /\ heap'[last'.made].properties = heap[last'.receiver].properties
       /\ IsValidated(last'.cls, heap'[last'.made].properties)

C12_EmptyPatchIdempotent == [][C12_EmptyStep]_vars

\* The empty patch succeeded on an aggregate whose class has a business rule,
\* the receiver being the instance an earlier call returned.
C12_Witness ==
    /\ last.op = "patch"
    /\ last.ok
    /\ last.input = EmptyPayload
    /\ Classes[last.cls].validateUpdate # Omitted
    /\ KindOf(last.cls) = "AggregateRoot"
    /\ last.receiver > 1
    /\ heap[last.made].properties = heap[last.receiver].properties

\* C13: the domainEvents of every aggregate instance are the events handed to
\* addEvent along the chain of create, addEvent, successful patch and
\* clearEvents calls that led to it, since the latest clearEvents (or since
\* create), in the order they were added.
C13_EventsSinceClear ==
    \A i \in DOMAIN heap :
        KindOf(heap[i].cls) = "AggregateRoot"
            => heap[i].domainEvents = sinceClear[i]

\* A second addEvent made an aggregate that holds two different events, in the
\* order they were added.
C13_Witness ==
    /\ last.op = "addEvent"
    /\ Len(heap[last.made].domainEvents) = 2
    /\ heap[last.made].domainEvents[1] # heap[last.made].domainEvents[2]
    /\ heap[last.made].domainEvents = sinceClear[last.made]

\* C14: addEvent and clearEvents leave every instance that exists before the
\* call as it was, the receiver included, so that two derivations from one
\* receiver do not see each other's events; the instance they return has the
\* receiver's properties and identifier and, as domainEvents, the receiver's
\* events followed by the event added, or none after clearEvents.
C14_EventStep ==
    (CallStep("addEvent") \/ CallStep("clearEvents")) =>
        LET self == heap[last'.receiver]
            made == heap'[last'.made]
        IN  /\ \A i \in DOMAIN heap : heap'[i] = heap[i]
            /\ last'.made = Len(heap) + 1
            /\ made.properties = self.properties
            /\ made.identifier = self.identifier
            /\ made.domainEvents =
                    IF last'.op = "addEvent"
                    THEN self.domainEvents \o <<last'.event>>
                    ELSE <<>>

C14_EventCallsLeaveReceiver == [][C14_EventStep]_vars

\* Two addEvent calls on the same receiver, each result holding its own event
\* only and the receiver still holding none.
C14_Witness ==
    /\ last.op = "addEvent"
    /\ last.receiver = 1
    /\ last.made = 3
    /\ heap[1].domainEvents = <<>>
    /\ Len(heap[2].domainEvents) = 1
    /\ heap[2].domainEvents[1] # last.event
    /\ heap[3].domainEvents = <<last.event>>

\* clearEvents returned an aggregate without events and left the receiver its
\* event.
C14_WitnessClear ==
    /\ last.op = "clearEvents"
    /\ heap[last.receiver].domainEvents # <<>>
    /\ heap[last.made].domainEvents = <<>>

\* C15: a successful patch on an aggregate root returns an instance whose
\* domainEvents are the receiver's at the time of the call: the same events in
\* the same order.
C15_PatchStep ==
    ( /\ CallStep("patch")
      /\ last'.ok
      /\ KindOf(last'.cls) = "AggregateRoot" )
    => heap'[last'.made].domainEvents = heap[last'.receiver].domainEvents

C15_PatchKeepsEvents == [][C15_PatchStep]_vars

\* A patch changed the properties of an aggregate that held an event.
C15_Witness ==
    /\ last.op = "patch"
    /\ last.ok
    /\ KindOf(last.cls) = "AggregateRoot"
    /\ heap[last.receiver].domainEvents # <<>>
    /\ heap[last.made].domainEvents = heap[last.receiver].domainEvents
    /\ heap[last.made].properties # heap[last.receiver].properties

\* The class made from the order schema, the update schema that requires a
\* status among confirmed and shipped, and the shipping rule.
IsOrderConfiguration(c) ==
    /\ KindOf(c) = "Entity"
    /\ Classes[c].schema = OrderSchema
    /\ Classes[c].updateSchema = Given(OrderUpdateSchema)
    /\ Classes[c].validateUpdate = Given("orderRule")

StatusPayload(s) == JsObject(<< <<"status", s>> >>)

\* C16: in the order configuration, patch({status: shipped}) on an order in
\* draft fails with cannotShipUnconfirmedOrder, patch({status: confirmed}) on
\* it succeeds, patch({status: shipped}) on a confirmed order succeeds, and a
\* successful patch returns a shipped order only from a confirmed receiver.
C16_OrderStep ==
    (CallStep("patch") /\ IsOrderConfiguration(last'.cls)) =>
        LET self == heap[last'.receiver]
            valid == IsValidated(last'.cls, self.properties)
            status == Get(self.properties, "status")
        IN  /\ (valid /\ status = "draft" /\ last'.input = StatusPayload("shipped"))
                => /\ ~last'.ok
                   /\ last'.errors = << <<"cannotShipUnconfirmedOrder">> >>
            /\ (valid /\ status = "draft"
                       /\ last'.input = StatusPayload("confirmed"))
                => /\ last'.ok
                   /\ Get(heap'[last'.made].properties, "status") = "confirmed"
            /\ (valid /\ status = "confirmed"
                       /\ last'.input = StatusPayload("shipped"))
                => /\ last'.ok
                   /\ Get(heap'[last'.made].properties, "status") = "shipped"
            /\ ( /\ last'.ok
                 /\ Get(heap'[last'.made].properties, "status") = "shipped" )
                => status = "confirmed"

C16_ShippedOnlyFromConfirmed == [][C16_OrderStep]_vars

\* An order in draft, the confirmed order, and the shipped order the patch of
\* the confirmed one returned.
C16_Witness ==
    /\ last.op = "patch"
    /\ IsOrderConfiguration(last.cls)
    /\ last.ok
    /\ last.receiver = 2
    /\ last.input = StatusPayload("shipped")
    /\ Get(heap[1].properties, "status") = "draft"
    /\ Get(heap[2].properties, "status") = "confirmed"
    /\ Get(heap[3].properties, "status") = "shipped"

\* The order in draft refused to ship.
C16_WitnessRefused ==
    /\ last.op = "patch"
    /\ IsOrderConfiguration(last.cls)
    /\ ~last.ok
    /\ last.input = StatusPayload("shipped")
    /\ heap[last.receiver].properties = << <<"id", "o1">>, <<"status", "draft">> >>

\* C17: equals on an Entity or AggregateRoot answers true exactly when the
\* receiver's identifier is the other's, whatever their properties and their
\* domain events are.
C17_EqualsByIdentifier ==
    (last.op = "equals" /\ HasIdentifier(last.cls)) =>
        (last.answer <=>
            heap[last.receiver].identifier = heap[last.other].identifier)

\* Two aggregates with one identifier, different properties and different
\* events compared equal.
C17_Witness ==
    /\ last.op = "equals"
    /\ KindOf(last.cls) = "AggregateRoot"
    /\ last.answer
    /\ heap[last.receiver].identifier # Undefined
    /\ heap[last.receiver].properties # heap[last.other].properties
    /\ heap[last.receiver].domainEvents # heap[last.other].domainEvents

\* Two entities with different identifiers and otherwise the same properties
\* compared unequal.
C17_WitnessUnequal ==
    /\ last.op = "equals"
    /\ KindOf(last.cls) = "Entity"
    /\ ~last.answer
    /\ heap[last.receiver].identifier # heap[last.other].identifier
    /\ Get(heap[last.receiver].properties, "name")
            = Get(heap[last.other].properties, "name")

\* The two objects hold the same keys with the same values.
SameFields(a, b) ==
    /\ Keys(a) = Keys(b)
    /\ \A k \in Keys(a) : Get(a, k) = Get(b, k)

C18_WitnessUnequal ==
    /\ last.op = "equals"
    /\ KindOf(last.cls) = "ValueObject"
    /\ IsValidated(last.cls, heap[last.receiver].properties)
    /\ IsValidated(last.cls, heap[last.other].properties)
    /\ Get(heap[last.receiver].properties, "amount")
            # Get(heap[last.other].properties, "amount")
    /\ Get(heap[last.receiver].properties, "currency")
            = Get(heap[last.other].properties, "currency")
    /\ ~last.answer

\* C19: equals on a value object does not depend on the order of the keys:
\* two instances whose properties hold the same keys with the same values
\* compare equal, in whatever order the keys are listed.
C19_EqualsIgnoresKeyOrder ==
    ( /\ last.op = "equals"
      /\ KindOf(last.cls) = "ValueObject"
      /\ SameFields(heap[last.receiver].properties,
                    heap[last.other].properties) )
    => last.answer

\* C20: the properties of an instance are frozen: a write to a field of
\* instance.properties is prevented, and the instance keeps the values it was
\* constructed with.
C20_WriteStep ==
    CallStep("write") =>
        heap'[last'.receiver].properties = heap[last'.receiver].properties

C20_PropertiesFrozen == [][C20_WriteStep]_vars

\* C21: no two instances share a properties object, and none shares it with
\* an object of the caller: creating or deriving an instance leaves the
\* properties of every existing instance as they were, a write to a field of
\* the object handed to create or to the constructor changes no instance, and
\* a write to the properties of one instance changes no other instance.
C21_FreshStep ==
    /\ \A i \in DOMAIN heap' :
            /\ \A j \in DOMAIN heap' : i # j => propertiesAt'[i] # propertiesAt'[j]
            /\ \A n \in DOMAIN heap' : propertiesAt'[i] # InputAt(n)
    /\ \A i \in DOMAIN heap :
            (CallStep("write") /\ last'.receiver = i) \/ heap'[i] = heap[i]

C21_PropertiesNotShared == [][C21_FreshStep]_vars

\* A write to the properties of an aggregate did not reach the aggregate that
\* addEvent derived from it.
C21_Witness ==
    /\ last.op = "write"
    /\ KindOf(last.cls) = "AggregateRoot"
    /\ last.receiver = 1
    /\ Len(heap) >= 2
    /\ heap[2].domainEvents # <<>>
    /\ heap[2].properties # heap[1].properties

\* A write to the object handed to create did not reach the instance created.
C21_WitnessInput ==
    /\ last.op = "writeInput"
    /\ \E k \in Keys(last.input.entries) :
            Get(heap[last.receiver].properties, k) # Get(last.input.entries, k)

\* C22: create on a domain event class returns a failure with the validation
\* errors, and constructs no event, when the payload fails the payload schema;
\* otherwise it returns an event whose payload is the validated payload and
\* whose eventName is the name given to the factory, as for every event of
\* the class.
C22_EventCreate ==
    /\ (last.op = "create" /\ KindOf(last.cls) = "DomainEvent") =>
            LET v == SafeParse(last.input, Classes[last.cls].schema)
            IN  IF v.ok
                THEN /\ last.ok
                     /\ last.made = Len(heap)
                     /\ heap[last.made].payload = v.value
                     /\ heap[last.made].eventName = "UserCreated"
                ELSE /\ ~last.ok
                     /\ last.errors = v.errors
                     /\ last.made = 0
                     /\ ~HasCall(last.log, "new")
    /\ \A i \in DOMAIN heap :
            KindOf(heap[i].cls) = "DomainEvent"
                => heap[i].eventName = Classes[heap[i].cls].eventName

\* A second event of the class, with another payload and the same name.
C22_Witness ==
    /\ last.op = "create"
    /\ KindOf(last.cls) = "DomainEvent"
    /\ last.ok
    /\ last.made = 2
    /\ heap[2].payload # heap[1].payload
    /\ heap[2].eventName = heap[1].eventName

\* An object payload was refused and no event made.
C22_WitnessRefused ==
    /\ last.op = "create"
    /\ KindOf(last.cls) = "DomainEvent"
    /\ last.input.isObject
    /\ ~last.ok
    /\ last.errors # <<>>

\* C23: every domain event that exists holds a validated payload and was made
\* by create, and its occurredOn is what the clock read when it was
\* constructed, whatever the payload: an event is never older than the events
\* made before it, and the event just created carries the latest reading.
C23_EventsValidatedAndStamped ==
    /\ \A i \in DOMAIN heap :
            KindOf(heap[i].cls) = "DomainEvent" =>
                /\ IsValidated(heap[i].cls, heap[i].payload)
                /\ heap[i].occurredOn \in 0..clock
                /\ \A j \in 1..(i - 1) : heap[j].occurredOn <= heap[i].occurredOn
    /\ (last.op = "new") => KindOf(last.cls) # "DomainEvent"
    /\ (last.op = "create" /\ KindOf(last.cls) = "DomainEvent" /\ last.ok)
            => heap[last.made].occurredOn = clock

\* Two events with the same payload and different times of occurrence.
C23_Witness ==
    /\ last.op = "create"
    /\ KindOf(last.cls) = "DomainEvent"
    /\ last.ok
    /\ last.made = 2
    /\ heap[2].payload = heap[1].payload
    /\ heap[2].occurredOn > heap[1].occurredOn

\* C24: create and patch throw for none of a schema-validation failure, a
\* business-rule rejection and a post-merge validation failure: the call
\* returns, and what it returns is a success holding the new instance or a
\* failure holding the errors.
C24_FailuresAreReturned ==
    (last.op \in {"create", "patch"}) =>
        /\ ~last.threw
        /\ last.ok => (last.made # 0 /\ last.errors = <<>>)
        /\ ~last.ok => (last.made = 0 /\ last.errors # <<>>)

\* A patch of a validated entity whose merged data failed the re-validation
\* returned a failure.
C24_Witness ==
    /\ last.op = "patch"
    /\ KindOf(last.cls) = "Entity"
    /\ IsValidated(last.cls, heap[last.receiver].properties)
    /\ HasCall(last.log, "merge")
    /\ ~last.ok
    /\ ~last.threw

\* A business rule rejection was returned as a failure.
C24_WitnessRule ==
    /\ last.op = "patch"
    /\ HasCall(last.log, "validateUpdate")
    /\ ~HasCall(last.log, "merge")
    /\ ~last.ok
    /\ ~last.threw

\* A schema-validation failure of create was returned as a failure.
C24_WitnessCreate ==
    /\ last.op = "create"
    /\ ~last.ok
    /\ ~last.threw

\* C25: in a patch whose payload passes the update schema, on a class made
\* with validateUpdate, the rule is invoked exactly once, with the receiver's
\* properties and the validated payload, right after the validation of the
\* payload and before the merge and the re-validation.
C25_RuleCalledOnce ==
    ( /\ last.op = "patch"
      /\ Classes[last.cls].validateUpdate # Omitted
      /\ UpdatesParse(last).ok )
    => /\ PatchCount(last.log, "validateUpdate") = 1
       /\ Len(last.log) >= 2
       /\ last.log[1].fn = "pureZodParse"
       /\ last.log[1].data = last.input
       /\ last.log[2].fn = "validateUpdate"
       /\ last.log[2].current = heap[last.receiver].properties
       /\ last.log[2].updates = UpdatesParse(last).value
       /\ \A n \in DOMAIN last.log :
                last.log[n].fn = "merge" =>
                    /\ n = 3
                    /\ Len(last.log) >= 4
                    /\ last.log[4].fn = "pureZodParse"

\* The rule received the validated payload of a raw payload that carried a
\* key the update schema does not describe, and the patch went on to merge.
C25_Witness ==
    /\ last.op = "patch"
    /\ Classes[last.cls].validateUpdate # Omitted
    /\ last.ok
    /\ last.input.isObject
    /\ Has(last.input.entries, "id")
    /\ ~Has(last.log[2].updates, "id")
    /\ HasCall(last.log, "merge")

\* The keys of the properties that the update schema of c does not describe.
FieldsOutsideUpdateSchema(c) ==
    ShapeKeys(Classes[c].schema.shape)
        \ ShapeKeys(EffectiveUpdateSchema(c).shape)

\* C26: on a class made with a partial update schema, a successful patch
\* leaves every field the update schema does not describe with the receiver's
\* value, also when the raw payload carries a value for that field.
C26_OnlyDescribedFieldsChange ==
    ( /\ last.op = "patch"
      /\ last.ok
      /\ Classes[last.cls].updateSchema # Omitted )
    => \A k \in FieldsOutsideUpdateSchema(last.cls) :
            Get(heap[last.made].properties, k)
                = Get(heap[last.receiver].properties, k)

\* A successful patch whose raw payload carried, for a field outside the
\* update schema, another value than the receiver's.
C26_Witness ==
    /\ last.op = "patch"
    /\ last.ok
    /\ Classes[last.cls].updateSchema # Omitted
    /\ \E k \in FieldsOutsideUpdateSchema(last.cls) :
            /\ Has(last.input.entries, k)
            /\ Get(last.input.entries, k)
                    # Get(heap[last.receiver].properties, k)
            /\ Get(heap[last.made].properties, k)
                    = Get(heap[last.receiver].properties, k)

\* An instance as the class made by the other factory from the same schema,
\* update schema, rule and extractor holds it: the same properties and
\* identifier, with the events an aggregate carries and an entity lacks.
AsEntity(inst) ==
    [cls |-> inst.cls, properties |-> inst.properties,
     identifier |-> inst.identifier]
AsAggregateRoot(inst, events) ==
    [cls |-> inst.cls, properties |-> inst.properties,
     identifier |-> inst.identifier, domainEvents |-> events]
EventsOf(inst) ==
    IF "domainEvents" \in DOMAIN inst THEN inst.domainEvents ELSE <<>>

\* What the other factory's class answers to the call `last` records.
OtherFactoryResult ==
    LET c == last.cls
        self == heap[last.receiver]
    IN  CASE last.op = "create" /\ Classes[c].kind = "Entity" ->
                AggregateRootCreate(c, last.input)
          [] last.op = "create" /\ Classes[c].kind = "AggregateRoot" ->
                EntityCreate(c, last.input)
          [] last.op = "patch" /\ Classes[c].kind = "Entity" ->
                AggregateRootPatchResult(c, AsAggregateRoot(self, <<>>),
                                         last.input)
          [] last.op = "patch" /\ Classes[c].kind = "AggregateRoot" ->
                EntityPatchResult(c, AsEntity(self), last.input)
OtherFactoryEquals ==
    LET self == heap[last.receiver]
        other == heap[last.other]
    IN  IF Classes[last.cls].kind = "Entity"
        THEN AggregateRootEquals(AsAggregateRoot(self, <<>>),
                                 AsAggregateRoot(other, <<>>))
        ELSE EntityEquals(AsEntity(self), AsEntity(other))

\* C27: made from the same schema, update schema, rule and extractor, the
\* entity class and the aggregate root class answer every create, patch and
\* equals alike: both succeed or both fail with the same errors, a success
\* carries the same properties and the same identifier, and the aggregate
\* differs from the entity by its domainEvents alone, which a create starts
\* empty and a patch takes from the receiver.
C27_FactoriesAgree ==
    ( /\ last.cls \in ClassIds
      /\ Classes[last.cls].kind \in {"Entity", "AggregateRoot"} )
    => /\ last.op \in {"create", "patch"} =>
            LET r == OtherFactoryResult
            IN  /\ r.ok = last.ok
                /\ r.errors = last.errors
                /\ r.threw = last.threw
                /\ last.ok =>
                      LET mine == heap[last.made]
                          events == IF last.op = "patch"
                                    THEN EventsOf(heap[last.receiver])
                                    ELSE <<>>
                      IN  /\ r.value.properties = mine.properties
                          /\ r.value.identifier = mine.identifier
                          /\ EventsOf(r.value) = <<>>
                          /\ EventsOf(mine) = events
                          /\ DOMAIN mine \ {"domainEvents"}
                                = DOMAIN r.value \ {"domainEvents"}
       /\ last.op = "equals" => last.answer = OtherFactoryEquals

\* A successful patch of an aggregate that carries events, its receiver made
\* by an earlier call on another instance: the entity class patches the same
\* receiver properties to the same properties and identifier.
C27_Witness ==
    /\ last.op = "patch"
    /\ Classes[last.cls].kind = "AggregateRoot"
    /\ last.ok
    /\ heap[last.made].domainEvents # <<>>
    /\ last.receiver > 1
    /\ heap[last.made].properties # heap[last.receiver].properties
    /\ OtherFactoryResult.ok
    /\ OtherFactoryResult.value.properties = heap[last.made].properties

\* A patch that both classes refuse.
C27_WitnessRefused ==
    /\ last.op = "patch"
    /\ Classes[last.cls].kind = "Entity"
    /\ ~last.ok
    /\ ~OtherFactoryResult.ok
    /\ OtherFactoryResult.errors # <<>>

\* A create that both classes refuse, and an equals both answer FALSE.
C27_WitnessCreate ==
    /\ last.op = "create"
    /\ Classes[last.cls].kind = "AggregateRoot"
    /\ ~last.ok
    /\ ~OtherFactoryResult.ok
C27_WitnessEquals ==
    /\ last.op = "equals"
    /\ Classes[last.cls].kind \in {"Entity", "AggregateRoot"}
    /\ ~last.answer
    /\ ~OtherFactoryEquals

\* A class made without an identifier extractor from a schema that has no id
\* field.
NoIdentifierSource(c) ==
    /\ HasIdentifier(c)
    /\ Classes[c].identifierExtractor = Omitted
    /\ "id" \notin ShapeKeys(Classes[c].schema.shape)

\* C28: on a class made without an extractor from a schema without an id
\* field, create succeeds for the data the schema accepts and reports no
\* error, every instance has the identifier undefined, and equals answers
\* true for any two instances, whatever their properties.
C28_UndefinedIdentifier ==
    ( /\ last.cls \in ClassIds
      /\ NoIdentifierSource(last.cls) )
    => /\ last.op = "create" =>
            /\ last.ok = SafeParse(last.input, Classes[last.cls].schema).ok
            /\ ~last.threw
            /\ last.ok => /\ last.errors = <<>>
                           /\ heap[last.made].identifier = Undefined
       /\ \A i \in DOMAIN heap : heap[i].identifier = Undefined
       /\ last.op = "equals" => last.answer

\* Two instances created with different properties, and equals answers true.
C28_Witness ==
    /\ last.op = "equals"
    /\ NoIdentifierSource(last.cls)
    /\ last.answer
    /\ IsValidated(last.cls, heap[last.receiver].properties)
    /\ IsValidated(last.cls, heap[last.other].properties)
    /\ heap[last.receiver].properties # heap[last.other].properties
    /\ heap[last.receiver].identifier = Undefined

\* A create of such a class has just succeeded.
C28_WitnessCreate ==
    /\ last.op = "create"
    /\ NoIdentifierSource(last.cls)
    /\ last.ok
    /\ last.errors = <<>>
    /\ heap[last.made].identifier = Undefined

\* C29: the aggregate held by the result that the documented create override
\* returns has the OrderCreated event in its domainEvents.
C29_OverrideRecordsEvent ==
    (last.op = "Order.create" /\ last.ok) =>
        \E n \in DOMAIN heap[last.made].domainEvents :
            heap[last.made].domainEvents[n] = OrderCreatedEvent

\* C30: equals does not look at the class of the other object: between two
\* instances with an identifier, of one class or of two, the call answers
\* whether the identifiers are the same value, and the other instance answers
\* the reverse call alike; so an instance and one derived from it with the
\* identifier unchanged are equal in both directions.
C30_EqualsIgnoresClass ==
    (last.op = "equals" /\ HasIdentifier(last.cls)) =>
        LET self == heap[last.receiver]
            other == heap[last.other]
        IN  /\ last.answer = (self.identifier = other.identifier)
            /\ last.answer = EqualsOf(other.cls, other, self)

\* An entity and an aggregate root, made by two factories, with the same
\* identifier: equals answers true.
C30_Witness ==
    /\ last.op = "equals"
    /\ Classes[last.cls].kind = "Entity"
    /\ Classes[heap[last.other].cls].kind = "AggregateRoot"
    /\ heap[last.receiver].identifier = heap[last.other].identifier
    /\ heap[last.receiver].identifier # Undefined
    /\ last.answer

\* Instances of two entity classes made from different schemas, with
\* different identifiers: equals answers false.
C30_WitnessDiffer ==
    /\ last.op = "equals"
    /\ Classes[last.cls].kind = "Entity"
    /\ Classes[heap[last.other].cls].kind = "Entity"
    /\ heap[last.other].cls # last.cls
    /\ Classes[heap[last.other].cls].schema # Classes[last.cls].schema
    /\ ~last.answer

\* An aggregate and the aggregate that addEvent derived from it, the only two
\* instances held, compared from the derived one and from the original.
C30_WitnessDerived ==
    /\ last.op = "equals"
    /\ Len(heap) = 2
    /\ heap[1].cls = heap[2].cls
    /\ Classes[last.cls].kind = "AggregateRoot"
    /\ heap[1].domainEvents = <<>>
    /\ heap[2].domainEvents # <<>>
    /\ last.receiver = 2
    /\ last.other = 1
    /\ last.answer
C30_WitnessDerivedBack ==
    /\ last.op = "equals"
    /\ Len(heap) = 2
    /\ heap[1].cls = heap[2].cls
    /\ Classes[last.cls].kind = "AggregateRoot"
    /\ heap[1].domainEvents = <<>>
    /\ heap[2].domainEvents # <<>>
    /\ last.receiver = 1
    /\ last.other = 2
    /\ last.answer

\* Two entities of one class that hold other properties under the same
\* identifier, as a patch and its receiver do.
C30_WitnessPatched ==
    /\ last.op = "equals"
    /\ Len(heap) = 2
    /\ heap[1].cls = heap[2].cls
    /\ Classes[last.cls].kind = "Entity"
    /\ heap[1].properties # heap[2].properties
    /\ last.receiver = 1
    /\ last.other = 2
    /\ last.answer

====
